---- MODULE Spec2Model ----
(***************************************************************************)
(* Model of crates/workspace/src/dock.rs: the Dock state machine           *)
(* (panel_entries, is_open, active_panel_index), the panels' active and    *)
(* zoomed flags as driven through PanelHandle::set_active / set_zoomed,    *)
(* and the callbacks and notifications each operation delivers.            *)
(*                                                                         *)
(* Indices are 0-based as in the source; Vec::get(ix) is modelled by       *)
(* InBounds/At.  A panel is registered at most once (the workspace moves a *)
(* panel by remove_panel followed by add_panel).                           *)
(***************************************************************************)
EXTENDS Integers, Sequences, FiniteSets, TLC

\* ---- bounds ----
NumPanels == 2
NumDocks == 2

Panels == 1..NumPanels
Docks == 1..NumDocks
\* the dock driven by the single-dock specifications
CoreDocks == {1}
\* Option::None of an index
None == -1

\* ---- Panel capability ----
\* An event is classified only through the two predicates the dock consults.
Events == [activate : BOOLEAN, close : BOOLEAN]
should_activate_on_event(e) == e.activate
should_close_on_event(e) == e.close
\* extent along the dock axis: 300 for horizontal panels, 200 for vertical ones
default_size(p) == IF p % 2 = 1 THEN 300 ELSE 200
\* extents a caller (drag of the resize handle, workspace) asks for
ResizeSizes == {150, 300}

\* most toggle requests waiting in the deferred queue
MaxDeferred == 1

DockPositions == {"Left", "Bottom", "Right"}
\* the order in which the reposition menu offers the positions
POSITIONS == <<"Left", "Right", "Bottom">>
\* the edge of dock d: the workspace owns one dock per edge
dock_position(d) == IF d % 3 = 1 THEN "Left" ELSE IF d % 3 = 2 THEN "Bottom" ELSE "Right"
\* Panel::position_is_valid is up to the panel: odd panels accept every edge,
\* as TestPanel does, even panels do not dock at the bottom
position_is_valid(p, pos) == p % 2 = 1 \/ pos # "Bottom"
\* no context menu is on show
NoMenu == [panel |-> 0, items |-> <<>>]

VARIABLES
    panel_entries,       \* [Docks -> Seq([panel, size])]   Dock::panel_entries
    is_open,             \* [Docks -> BOOLEAN]              Dock::is_open
    active_panel_index,  \* [Docks -> Nat]                  Dock::active_panel_index
    active,              \* [Panels -> BOOLEAN]  last value given to set_active (FALSE at construction)
    zoomed,              \* [Panels -> BOOLEAN]  the panel's is_zoomed()
    calls,               \* panel callbacks delivered by the last operation, in order
    notified,            \* number of cx.notify() issued by the last operation
    last,                \* the last operation, its arguments and the branch it took
    reg_active,          \* registered panels whose active flag was set when add_panel ran
    reg_zoomed,          \* registered panels that were zoomed when add_panel ran
    subscriptions,       \* [Docks -> SUBSET Panels]  panels whose entry holds live _subscriptions
    trail,               \* callbacks of an activate_panel; set_open(true) sequence on a closed dock
    strip,               \* [Docks -> Seq(Panels)]  the buttons PanelButtons rendered last, in order
    deferred,            \* TogglePanel actions handed to defer() and not run yet
    position,            \* [Panels -> DockPositions]  the panel's position field
    menu,                \* the context menu on show: the panel it belongs to and its items
    workspace_alive      \* whether PanelButtons::workspace can still be upgraded

vars == <<panel_entries, is_open, active_panel_index, active, zoomed, calls,
          notified, last, reg_active, reg_zoomed, subscriptions, trail,
          strip, deferred, position, menu, workspace_alive>>
strip_vars == <<strip, deferred, position, menu, workspace_alive>>

\* ---- Vec helpers ----
InBounds(s, ix) == ix >= 0 /\ ix < Len(s)
At(s, ix) == s[ix + 1]
\* iter().position(|entry| entry.panel.id() == panel.id())
Position(s, p) ==
    IF \E i \in 1..Len(s) : s[i].panel = p
    THEN (CHOOSE i \in 1..Len(s) : s[i].panel = p /\ \A j \in 1..(i - 1) : s[j].panel # p) - 1
    ELSE None
\* Vec::remove(ix)
RemoveAt(s, ix) == [i \in 1..(Len(s) - 1) |-> IF i <= ix THEN s[i] ELSE s[i + 1]]
PanelsOf(s) == {s[i].panel : i \in 1..Len(s)}
Registered == UNION {PanelsOf(panel_entries[d]) : d \in Docks}

\* ---- the update context of one operation on dock d ----
Begin(d) ==
    [panel_entries |-> panel_entries[d], is_open |-> is_open[d],
     active_panel_index |-> active_panel_index[d],
     subscriptions |-> subscriptions[d],
     active |-> active, zoomed |-> zoomed, calls |-> <<>>, notified |-> 0]

cx_notify(m) == [m EXCEPT !.notified = @ + 1]
cx_focus(m, p) == [m EXCEPT !.calls = Append(@, [fn |-> "focus", panel |-> p, arg |-> TRUE])]
handle_set_active(m, p, b) ==
    [m EXCEPT !.active[p] = b,
              !.calls = Append(@, [fn |-> "set_active", panel |-> p, arg |-> b])]
handle_set_zoomed(m, p, z) ==
    [m EXCEPT !.zoomed[p] = z,
              !.calls = Append(@, [fn |-> "set_zoomed", panel |-> p, arg |-> z])]

\* ---- Dock operations ----
\* set_open without the `open != self.is_open` guard
set_open_unguarded(m, open) ==
    LET m1 == [m EXCEPT !.is_open = open]
        m2 == IF InBounds(m1.panel_entries, m1.active_panel_index)
              THEN handle_set_active(m1, At(m1.panel_entries, m1.active_panel_index).panel, open)
              ELSE m1
    IN  cx_notify(m2)

set_open(m, open) ==
    IF open # m.is_open
    THEN LET m1 == [m EXCEPT !.is_open = open]
             m2 == IF InBounds(m1.panel_entries, m1.active_panel_index)
                   THEN handle_set_active(m1, At(m1.panel_entries, m1.active_panel_index).panel, open)
                   ELSE m1
         IN  cx_notify(m2)
    ELSE m

toggle_open(m) == cx_notify(set_open(m, ~m.is_open))

\* activate_panel that tells the new entry before the old one
activate_panel_new_first(m, panel_ix) ==
    IF panel_ix # m.active_panel_index
    THEN LET m1 == IF InBounds(m.panel_entries, panel_ix)
                   THEN handle_set_active(m, At(m.panel_entries, panel_ix).panel, TRUE)
                   ELSE m
             m2 == IF InBounds(m1.panel_entries, m1.active_panel_index)
                   THEN handle_set_active(m1, At(m1.panel_entries, m1.active_panel_index).panel, FALSE)
                   ELSE m1
         IN  cx_notify([m2 EXCEPT !.active_panel_index = panel_ix])
    ELSE m

\* activate_panel that forgets to tell the previously active entry
activate_panel_keep_old(m, panel_ix) ==
    IF panel_ix # m.active_panel_index
    THEN LET m2 == [m EXCEPT !.active_panel_index = panel_ix]
             m3 == IF InBounds(m2.panel_entries, m2.active_panel_index)
                   THEN handle_set_active(m2, At(m2.panel_entries, m2.active_panel_index).panel, TRUE)
                   ELSE m2
         IN  cx_notify(m3)
    ELSE m

activate_panel(m, panel_ix) ==
    IF panel_ix # m.active_panel_index
    THEN LET m1 == IF InBounds(m.panel_entries, m.active_panel_index)
                   THEN handle_set_active(m, At(m.panel_entries, m.active_panel_index).panel, FALSE)
                   ELSE m
             m2 == [m1 EXCEPT !.active_panel_index = panel_ix]
             m3 == IF InBounds(m2.panel_entries, m2.active_panel_index)
                   THEN handle_set_active(m2, At(m2.panel_entries, m2.active_panel_index).panel, TRUE)
                   ELSE m2
         IN  cx_notify(m3)
    ELSE m

\* add_panel that puts the new entry first
add_panel_front(m, p) ==
    cx_notify([m EXCEPT !.subscriptions = @ \cup {p},
                        !.panel_entries = <<[panel |-> p, size |-> default_size(p)]>> \o @])

add_panel(m, p) ==
    cx_notify([m EXCEPT !.subscriptions = @ \cup {p},
                        !.panel_entries = Append(@, [panel |-> p, size |-> default_size(p)])])

\* Vec::remove whose entry is leaked instead of dropped: the subscriptions stay
drop_entry_leak(m, ix) == [m EXCEPT !.panel_entries = RemoveAt(@, ix)]

\* self.panel_entries.remove(ix): the entry leaves the Vec and is dropped,
\* which releases the subscriptions it owns
drop_entry(m, ix) ==
    [m EXCEPT !.subscriptions = @ \ {At(m.panel_entries, ix).panel},
              !.panel_entries = RemoveAt(@, ix)]

\* remove_panel that keeps the active index when the active entry goes
remove_panel_keep_index(m, p) ==
    LET panel_ix == Position(m.panel_entries, p) IN
    IF panel_ix # None
    THEN LET m1 == IF panel_ix = m.active_panel_index
                   THEN set_open(m, FALSE)
                   ELSE IF panel_ix < m.active_panel_index
                        THEN [m EXCEPT !.active_panel_index = @ - 1]
                        ELSE m
         IN  cx_notify(drop_entry(m1, panel_ix))
    ELSE m

\* remove_panel that does not shift the active index down
remove_panel_no_shift(m, p) ==
    LET panel_ix == Position(m.panel_entries, p) IN
    IF panel_ix # None
    THEN LET m1 == IF panel_ix = m.active_panel_index
                   THEN set_open([m EXCEPT !.active_panel_index = 0], FALSE)
                   ELSE m
         IN  cx_notify(drop_entry(m1, panel_ix))
    ELSE m

\* remove_panel that leaves the dock open when the active entry goes
remove_panel_stay_open(m, p) ==
    LET panel_ix == Position(m.panel_entries, p) IN
    IF panel_ix # None
    THEN LET m1 == IF panel_ix = m.active_panel_index
                   THEN [m EXCEPT !.active_panel_index = 0]
                   ELSE IF panel_ix < m.active_panel_index
                        THEN [m EXCEPT !.active_panel_index = @ - 1]
                        ELSE m
         IN  cx_notify(drop_entry(m1, panel_ix))
    ELSE m

remove_panel(m, p) ==
    LET panel_ix == Position(m.panel_entries, p) IN
    IF panel_ix # None
    THEN LET m1 == IF panel_ix = m.active_panel_index
                   THEN set_open([m EXCEPT !.active_panel_index = 0], FALSE)
                   ELSE IF panel_ix < m.active_panel_index
                        THEN [m EXCEPT !.active_panel_index = @ - 1]
                        ELSE m
         IN  cx_notify(drop_entry(m1, panel_ix))
    ELSE m

\* the loop of set_panel_zoomed without its `else if` arm: other entries keep their zoom
RECURSIVE set_panel_zoomed_from_target_only(_, _, _, _)
set_panel_zoomed_from_target_only(m, i, target, z) ==
    IF i > Len(m.panel_entries) THEN m
    ELSE LET q == m.panel_entries[i].panel
             m1 == IF q = target /\ z # m.zoomed[q] THEN handle_set_zoomed(m, q, z) ELSE m
         IN  set_panel_zoomed_from_target_only(m1, i + 1, target, z)

\* the loop body of set_panel_zoomed for entry number i (1-based), then the rest
RECURSIVE set_panel_zoomed_from(_, _, _, _)
set_panel_zoomed_from(m, i, target, z) ==
    IF i > Len(m.panel_entries) THEN m
    ELSE LET q == m.panel_entries[i].panel
             m1 == IF q = target
                   THEN IF z # m.zoomed[q] THEN handle_set_zoomed(m, q, z) ELSE m
                   ELSE IF m.zoomed[q] THEN handle_set_zoomed(m, q, FALSE) ELSE m
         IN  set_panel_zoomed_from(m1, i + 1, target, z)

\* set_panel_zoomed that tells the target its zoom state even when it has it already
set_panel_zoomed_always(m, target, z) ==
    cx_notify(handle_set_zoomed(set_panel_zoomed_from(m, 1, target, z), target, z))

set_panel_zoomed(m, target, z) == cx_notify(set_panel_zoomed_from(m, 1, target, z))

RECURSIVE zoom_out_from(_, _)
zoom_out_from(m, i) ==
    IF i > Len(m.panel_entries) THEN m
    ELSE LET q == m.panel_entries[i].panel
         IN  zoom_out_from(IF m.zoomed[q] THEN handle_set_zoomed(m, q, FALSE) ELSE m, i + 1)

\* zoom_out that stops after the first entry
zoom_out_first_only(m) ==
    IF m.panel_entries # <<>> /\ m.zoomed[m.panel_entries[1].panel]
    THEN handle_set_zoomed(m, m.panel_entries[1].panel, FALSE)
    ELSE m

zoom_out(m) == zoom_out_from(m, 1)

\* active_entry() / active_panel(): the panel shown, None when closed
active_panel(s, open, ix) ==
    IF open /\ InBounds(s, ix) THEN At(s, ix).panel ELSE None

\* zoomed_panel that looks at the active entry of a closed dock too
zoomed_panel_any_open(s, open, ix, z) ==
    IF InBounds(s, ix) /\ z[At(s, ix).panel] THEN At(s, ix).panel ELSE None

\* zoomed_panel(): the active entry's panel when that panel is zoomed, else None
zoomed_panel(s, open, ix, z) ==
    LET p == active_panel(s, open, ix) IN
    IF p # None /\ z[p] THEN p ELSE None

\* panel_size(): the stored size of the first entry of panel p, None if absent
panel_size(s, p) ==
    IF Position(s, p) # None THEN At(s, Position(s, p)).size ELSE None

\* resize_panel that falls back to the active entry when the panel is absent
resize_panel_or_active(m, p, size) ==
    LET ix == IF Position(m.panel_entries, p) # None
              THEN Position(m.panel_entries, p) ELSE m.active_panel_index
    IN  IF InBounds(m.panel_entries, ix)
        THEN [m EXCEPT !.panel_entries[ix + 1].size = size]
        ELSE m

resize_panel(m, p, size) ==
    LET ix == Position(m.panel_entries, p) IN
    IF ix # None
    THEN [m EXCEPT !.panel_entries[ix + 1].size = size]
    ELSE m

\* active_panel_size(): the stored size of the active entry, None when closed
active_panel_size(s, open, ix) ==
    IF open
    THEN IF InBounds(s, ix) THEN At(s, ix).size ELSE None
    ELSE None

\* resize_active_panel that only resizes the entry of an open dock
resize_active_panel_if_open(m, size) ==
    IF m.is_open /\ InBounds(m.panel_entries, m.active_panel_index)
    THEN cx_notify([m EXCEPT !.panel_entries[m.active_panel_index + 1].size = size])
    ELSE m

resize_active_panel(m, size) ==
    IF InBounds(m.panel_entries, m.active_panel_index)
    THEN cx_notify([m EXCEPT !.panel_entries[m.active_panel_index + 1].size = size])
    ELSE m

\* the subscription closure without the `this.active_panel() == panel` test
on_panel_event_close_any(m, p, e) ==
    IF should_activate_on_event(e)
    THEN LET ix == Position(m.panel_entries, p) IN
         IF ix # None
         THEN cx_focus(activate_panel(set_open(m, TRUE), ix), p)
         ELSE m
    ELSE IF should_close_on_event(e) THEN set_open(m, FALSE) ELSE m

\* the closure given to cx.subscribe in add_panel, run for panel p's event e
on_panel_event(m, p, e) ==
    IF should_activate_on_event(e)
    THEN LET ix == Position(m.panel_entries, p) IN
         IF ix # None
         THEN cx_focus(activate_panel(set_open(m, TRUE), ix), p)
         ELSE m
    ELSE IF should_close_on_event(e)
            /\ active_panel(m.panel_entries, m.is_open, m.active_panel_index) = p
         THEN set_open(m, FALSE)
         ELSE m

\* ---- bookkeeping shared by the actions ----
Apply(d, m) ==
    /\ panel_entries' = [panel_entries EXCEPT ![d] = m.panel_entries]
    /\ is_open' = [is_open EXCEPT ![d] = m.is_open]
    /\ active_panel_index' = [active_panel_index EXCEPT ![d] = m.active_panel_index]
    /\ subscriptions' = [subscriptions EXCEPT ![d] = m.subscriptions]
    /\ active' = m.active
    /\ zoomed' = m.zoomed
    /\ calls' = m.calls
    /\ notified' = m.notified

\* a dock operation run outside the toggle strip
Commit(d, m) ==
    /\ Apply(d, m)
    /\ UNCHANGED strip_vars

Op(name, d, p, ix, arg, branch) ==
    [op |-> name, dock |-> d, panel |-> p, ix |-> ix, arg |-> arg, branch |-> branch]

IdleTrail == [phase |-> "idle", dock |-> 0, ix |-> None, calls |-> <<>>]

\* a closed dock none of whose panels is active
ClosedInactive(d) ==
    /\ ~is_open[d]
    /\ \A q \in PanelsOf(panel_entries[d]) : ~active[q]

Init ==
    /\ panel_entries = [d \in Docks |-> <<>>]
    /\ is_open = [d \in Docks |-> FALSE]
    /\ active_panel_index = [d \in Docks |-> 0]
    /\ active = [p \in Panels |-> FALSE]
    /\ zoomed = [p \in Panels |-> FALSE]
    /\ calls = <<>>
    /\ notified = 0
    /\ last = Op("new", 0, 0, None, FALSE, "new")
    /\ reg_active = {}
    /\ reg_zoomed = {}
    /\ subscriptions = [d \in Docks |-> {}]
    /\ trail = IdleTrail
    /\ strip = [d \in Docks |-> <<>>]
    /\ deferred = <<>>
    /\ position = [p \in Panels |-> dock_position(1)]
    /\ menu = NoMenu
    /\ workspace_alive = TRUE

\* ---- actions ----
AddPanel(d, p) ==
    /\ p \notin Registered
    /\ Commit(d, add_panel(Begin(d), p))
    /\ last' = Op("add_panel", d, p, Len(panel_entries[d]), FALSE, "added")
    /\ reg_active' = IF active[p] THEN reg_active \cup {p} ELSE reg_active
    /\ reg_zoomed' = IF zoomed[p] THEN reg_zoomed \cup {p} ELSE reg_zoomed
    /\ trail' = IdleTrail

\* which arm of remove_panel a call takes
remove_panel_branch(d, p) ==
    IF Position(panel_entries[d], p) = None THEN "not_found"
    ELSE IF Position(panel_entries[d], p) = active_panel_index[d] THEN "active"
    ELSE IF Position(panel_entries[d], p) < active_panel_index[d] THEN "before_active"
    ELSE "after_active"

\* remove_panel for any panel handle, registered in d or not
RemovePanel(d, p) ==
    /\ Commit(d, remove_panel(Begin(d), p))
    /\ last' = Op("remove_panel", d, p, Position(panel_entries[d], p), FALSE,
                  remove_panel_branch(d, p))
    /\ reg_active' = reg_active \ (PanelsOf(panel_entries[d]) \cap {p})
    /\ reg_zoomed' = reg_zoomed \ (PanelsOf(panel_entries[d]) \cap {p})
    /\ trail' = IdleTrail

SetOpen(d, open) ==
    /\ Commit(d, set_open(Begin(d), open))
    /\ last' = Op("set_open", d, 0, None, open,
                  IF open # is_open[d] THEN "changed" ELSE "same")
    /\ trail' = IF trail.phase = "activated" /\ trail.dock = d /\ open
                THEN [trail EXCEPT !.phase = "opened", !.calls = @ \o calls']
                ELSE IdleTrail
    /\ UNCHANGED <<reg_active, reg_zoomed>>

ToggleOpen(d) ==
    /\ Commit(d, toggle_open(Begin(d)))
    /\ last' = Op("toggle_open", d, 0, None, ~is_open[d], "changed")
    /\ trail' = IdleTrail
    /\ UNCHANGED <<reg_active, reg_zoomed>>

\* activate_panel with an index of the entry collection
ActivatePanel(d, ix) ==
    /\ InBounds(panel_entries[d], ix)
    /\ Commit(d, activate_panel(Begin(d), ix))
    /\ last' = Op("activate_panel", d, At(panel_entries[d], ix).panel, ix, FALSE,
                  IF ix # active_panel_index[d] THEN "changed" ELSE "same")
    /\ trail' = IF ClosedInactive(d) /\ ix # active_panel_index[d]
                THEN [phase |-> "activated", dock |-> d, ix |-> ix, calls |-> calls']
                ELSE IdleTrail
    /\ UNCHANGED <<reg_active, reg_zoomed>>

\* which arm of the subscription closure an event of panel p takes in dock d
event_branch(d, p, e) ==
    IF p \notin subscriptions[d] THEN "no_subscription"
    ELSE IF should_activate_on_event(e) THEN "activate"
    ELSE IF should_close_on_event(e)
            /\ active_panel(panel_entries[d], is_open[d], active_panel_index[d]) = p
         THEN "close"
         ELSE "ignored"

\* panel p emits an event of class e; dock d reacts only through a live
\* subscription of p's entry
PanelEvent(d, p, e) ==
    /\ Commit(d, IF p \in subscriptions[d] THEN on_panel_event(Begin(d), p, e) ELSE Begin(d))
    /\ last' = Op("event", d, p, Position(panel_entries[d], p), e.close, event_branch(d, p, e))
    /\ trail' = IdleTrail
    /\ UNCHANGED <<reg_active, reg_zoomed>>

\* set_panel_zoomed for any panel handle, registered in d or not
SetPanelZoomed(d, p, z) ==
    /\ Commit(d, set_panel_zoomed(Begin(d), p, z))
    /\ last' = Op("set_panel_zoomed", d, p, Position(panel_entries[d], p), z,
                  IF p \notin PanelsOf(panel_entries[d]) THEN "not_found"
                  ELSE IF z # zoomed[p] THEN "changed" ELSE "same")
    /\ trail' = IdleTrail
    /\ UNCHANGED <<reg_active, reg_zoomed>>

ZoomOut(d) ==
    /\ Commit(d, zoom_out(Begin(d)))
    /\ last' = Op("zoom_out", d, 0, None, FALSE, "zoom_out")
    /\ trail' = IdleTrail
    /\ UNCHANGED <<reg_active, reg_zoomed>>

\* resize_panel for any panel handle, registered in d or not
ResizePanel(d, p, size) ==
    /\ Commit(d, resize_panel(Begin(d), p, size))
    /\ last' = Op("resize_panel", d, p, Position(panel_entries[d], p), size,
                  IF Position(panel_entries[d], p) = None THEN "not_found" ELSE "found")
    /\ trail' = IdleTrail
    /\ UNCHANGED <<reg_active, reg_zoomed>>

ResizeActivePanel(d, size) ==
    /\ Commit(d, resize_active_panel(Begin(d), size))
    /\ last' = Op("resize_active_panel", d, 0, active_panel_index[d], size,
                  IF InBounds(panel_entries[d], active_panel_index[d]) THEN "found" ELSE "empty")
    /\ trail' = IdleTrail
    /\ UNCHANGED <<reg_active, reg_zoomed>>

\* ---- PanelButtons, the toggle strip ----
TogglePanel(d, ix) == [dock_position |-> dock_position(d), panel_index |-> ix]
DockAt(pos) == CHOOSE d \in Docks : dock_position(d) = pos

\* the strip changed nothing of the docks and the panels
DocksIdle ==
    /\ UNCHANGED <<panel_entries, is_open, active_panel_index, active, zoomed,
                   subscriptions, reg_active, reg_zoomed>>
    /\ calls' = <<>>
    /\ notified' = 0
    /\ trail' = IdleTrail

\* render: one button per entry, numbered as the entries are now
Render(d) ==
    /\ strip' = [strip EXCEPT ![d] = [i \in 1..Len(panel_entries[d]) |-> panel_entries[d][i].panel]]
    /\ last' = Op("render", d, 0, None, FALSE, "rendered")
    /\ DocksIdle
    /\ UNCHANGED <<deferred, position, menu, workspace_alive>>

\* left-click handler that hands the action to defer() twice
on_click_left_twice(q, alive, action) ==
    IF alive THEN Append(Append(q, action), action) ELSE q

\* left-click handler: defer the toggle if the workspace is still there
on_click_left(q, alive, action) ==
    IF alive THEN Append(q, action) ELSE q

ClickLeft(d, ix) ==
    /\ InBounds(strip[d], ix)
    /\ Len(deferred) < MaxDeferred
    /\ deferred' = on_click_left(deferred, workspace_alive, TogglePanel(d, ix))
    /\ last' = Op("click_left", d, At(strip[d], ix), ix, FALSE,
                  IF workspace_alive THEN "deferred" ELSE "no_workspace")
    /\ DocksIdle
    /\ UNCHANGED <<strip, position, menu, workspace_alive>>

\* Workspace::toggle_panel: close or open the dock when the action names the
\* active entry, otherwise open the dock and activate the entry it names
toggle_panel(m, ix) ==
    IF ix = m.active_panel_index
    THEN toggle_open(m)
    ELSE activate_panel(set_open(m, TRUE), ix)

\* the deferred closure runs once the update cycle of the click has finished
RunDeferred ==
    /\ deferred # <<>>
    /\ LET action == Head(deferred)
           d == DockAt(action.dock_position)
           ix == action.panel_index
       IN  /\ Apply(d, toggle_panel(Begin(d), ix))
           /\ last' = Op("toggle_panel", d,
                         IF InBounds(panel_entries[d], ix) THEN At(panel_entries[d], ix).panel ELSE 0,
                         ix, FALSE,
                         IF ix = active_panel_index[d] THEN "toggle_open" ELSE "activate")
    /\ deferred' = Tail(deferred)
    /\ trail' = IdleTrail
    /\ UNCHANGED <<reg_active, reg_zoomed, strip, position, menu, workspace_alive>>

\* the items the right-click handler gives to menu.show()
\* the menu without the filter on the dock's own position
menu_items_all(d, p) ==
    SelectSeq(POSITIONS, LAMBDA pos : position_is_valid(p, pos))

menu_items(d, p) ==
    SelectSeq(POSITIONS, LAMBDA pos : pos # dock_position(d) /\ position_is_valid(p, pos))

ClickRight(d, ix) ==
    /\ InBounds(strip[d], ix)
    /\ menu' = [panel |-> At(strip[d], ix), items |-> menu_items(d, At(strip[d], ix))]
    /\ last' = Op("click_right", d, At(strip[d], ix), ix, FALSE, "shown")
    /\ DocksIdle
    /\ UNCHANGED <<strip, deferred, position, workspace_alive>>

\* the handler of a menu item: view.set_position(position, cx)
set_position(pos_of, p, pos) == [pos_of EXCEPT ![p] = pos]

\* the context menu invokes the handler of its k-th item and closes
SelectMenuItem(k) ==
    /\ k \in 1..Len(menu.items)
    /\ position' = set_position(position, menu.panel, menu.items[k])
    /\ menu' = NoMenu
    /\ last' = Op("select_menu", 0, menu.panel, k, FALSE, menu.items[k])
    /\ DocksIdle
    /\ UNCHANGED <<strip, deferred, workspace_alive>>

\* the workspace goes away; a deferred closure holds a strong handle to it
DropWorkspace ==
    /\ workspace_alive
    /\ deferred = <<>>
    /\ workspace_alive' = FALSE
    /\ last' = Op("drop_workspace", 0, 0, None, FALSE, "dropped")
    /\ DocksIdle
    /\ UNCHANGED <<strip, deferred, position, menu>>

Next ==
    \/ \E d \in CoreDocks, p \in Panels : AddPanel(d, p)
    \/ \E d \in CoreDocks, p \in Panels : RemovePanel(d, p)
    \/ \E d \in CoreDocks, open \in BOOLEAN : SetOpen(d, open)
    \/ \E d \in CoreDocks : ToggleOpen(d)
    \/ \E d \in CoreDocks, ix \in 0..(NumPanels - 1) : ActivatePanel(d, ix)
    \/ \E d \in CoreDocks, p \in Panels, e \in Events : PanelEvent(d, p, e)

Spec == Init /\ [][Next]_vars

\* registration and zoom on every dock of the workspace
NextZoom ==
    \/ \E d \in Docks, p \in Panels : AddPanel(d, p)
    \/ \E d \in Docks, p \in Panels : RemovePanel(d, p)
    \/ \E d \in Docks, p \in Panels, z \in BOOLEAN : SetPanelZoomed(d, p, z)
    \/ \E d \in Docks : ZoomOut(d)

SpecZoom == Init /\ [][NextZoom]_vars

\* the three setters with an idempotence guard, on one dock
NextSetters ==
    \/ \E d \in CoreDocks, p \in Panels : AddPanel(d, p)
    \/ \E d \in CoreDocks, open \in BOOLEAN : SetOpen(d, open)
    \/ \E d \in CoreDocks, ix \in 0..(NumPanels - 1) : ActivatePanel(d, ix)
    \/ \E d \in CoreDocks, p \in Panels, z \in BOOLEAN : SetPanelZoomed(d, p, z)

SpecSetters == Init /\ [][NextSetters]_vars

\* registration, selection and the stored sizes of one dock
NextResize ==
    \/ \E d \in CoreDocks, p \in Panels : AddPanel(d, p)
    \/ \E d \in CoreDocks, p \in Panels : RemovePanel(d, p)
    \/ \E d \in CoreDocks, open \in BOOLEAN : SetOpen(d, open)
    \/ \E d \in CoreDocks, ix \in 0..(NumPanels - 1) : ActivatePanel(d, ix)
    \/ \E d \in CoreDocks, p \in Panels, size \in ResizeSizes : ResizePanel(d, p, size)
    \/ \E d \in CoreDocks, size \in ResizeSizes : ResizeActivePanel(d, size)

SpecResize == Init /\ [][NextResize]_vars

\* one dock, panels coming and going, and the left button of its toggle strip
NextToggle ==
    \/ \E d \in CoreDocks, p \in Panels : AddPanel(d, p)
    \/ \E d \in CoreDocks, p \in Panels : RemovePanel(d, p)
    \/ \E d \in CoreDocks : Render(d)
    \/ \E d \in CoreDocks, ix \in 0..(NumPanels - 1) : ClickLeft(d, ix)
    \/ RunDeferred

SpecToggle == Init /\ [][NextToggle]_vars

\* one dock with both buttons of its toggle strip
NextStrip ==
    \/ \E d \in CoreDocks, p \in Panels : AddPanel(d, p)
    \/ \E d \in CoreDocks : Render(d)
    \/ \E d \in CoreDocks, ix \in 0..(NumPanels - 1) : ClickLeft(d, ix)
    \/ RunDeferred
    \/ \E d \in CoreDocks, ix \in 0..(NumPanels - 1) : ClickRight(d, ix)
    \/ \E k \in 1..Len(POSITIONS) : SelectMenuItem(k)
    \/ DropWorkspace

SpecStrip == Init /\ [][NextStrip]_vars

\* every dock with the right button of its toggle strip
NextMenu ==
    \/ \E d \in Docks, p \in Panels : AddPanel(d, p)
    \/ \E d \in Docks : Render(d)
    \/ \E d \in Docks, ix \in 0..(NumPanels - 1) : ClickRight(d, ix)
    \/ \E k \in 1..Len(POSITIONS) : SelectMenuItem(k)

SpecMenu == Init /\ [][NextMenu]_vars

TypeOK ==
    /\ \A d \in Docks : Len(panel_entries[d]) <= NumPanels
    /\ is_open \in [Docks -> BOOLEAN]
    /\ active \in [Panels -> BOOLEAN]
    /\ zoomed \in [Panels -> BOOLEAN]
\* ---- properties ----
ZoomedIn(d) == {p \in PanelsOf(panel_entries[d]) : zoomed[p]}
ActiveIn(d) == {p \in PanelsOf(panel_entries[d]) : active[p]}
\* number of set_active(true) deliveries to panel p in the log cs
RECURSIVE CountActivations(_, _)
CountActivations(cs, p) ==
    IF cs = <<>> THEN 0
    ELSE (IF Head(cs) = [fn |-> "set_active", panel |-> p, arg |-> TRUE] THEN 1 ELSE 0)
         + CountActivations(Tail(cs), p)

\* C1 (invariant I1): whenever a dock has entries, its active_panel_index
\* is a valid index of panel_entries.
C1_ActiveIndexInBounds ==
    \A d \in Docks :
        panel_entries[d] # <<>> => active_panel_index[d] < Len(panel_entries[d])

\* the active entry was the last of several and has just been removed
C1_Witness ==
    /\ last.op = "remove_panel" /\ last.branch = "active"
    /\ panel_entries[last.dock] # <<>>
    /\ last.ix = Len(panel_entries[last.dock])

\* C2 (invariant I3, open half): in an open dock with entries, the entry at
\* active_panel_index is in bounds and its panel's active flag is true.
C2_OpenImpliesActive ==
    \A d \in Docks :
        (is_open[d] /\ panel_entries[d] # <<>>) =>
            /\ InBounds(panel_entries[d], active_panel_index[d])
            /\ active[At(panel_entries[d], active_panel_index[d]).panel]

\* C3 (invariant I3, closed half): in a closed dock no panel that was
\* registered inactive has its active flag true.
C3_ClosedImpliesInactive ==
    \A d \in Docks :
        ~is_open[d] => \A p \in PanelsOf(panel_entries[d]) \ reg_active : ~active[p]

\* C4 (zoom exclusivity within a dock): a dock whose panels were all
\* unzoomed when registered has at most one zoomed entry.
C4_ZoomExclusivePerDock ==
    \A d \in Docks :
        PanelsOf(panel_entries[d]) \cap reg_zoomed = {} => Cardinality(ZoomedIn(d)) <= 1

\* set_panel_zoomed(P, true) has just taken the zoom away from another entry
C4_Witness ==
    /\ last.op = "set_panel_zoomed" /\ last.arg /\ last.branch = "changed"
    /\ reg_zoomed = {}
    /\ Len(calls) = 2
    /\ zoomed[last.panel]

\* C5 as stated: with all panels registered unzoomed, at most one panel
\* over all docks together is zoomed.
C5_ZoomExclusiveAcrossDocks ==
    reg_zoomed = {} => Cardinality({p \in Registered : zoomed[p]}) <= 1

\* C5 amended: a set_panel_zoomed or zoom_out call on dock d changes the zoom
\* flag of no panel outside d, and leaves at most one zoomed entry in d
\* (none after zoom_out); other docks keep their zoomed panel.
C5_ZoomLocalToDock ==
    [][\A d \in Docks :
          (last'.op \in {"set_panel_zoomed", "zoom_out"} /\ last'.dock = d) =>
              /\ \A p \in Panels \ PanelsOf(panel_entries[d]) : zoomed'[p] = zoomed[p]
              /\ Cardinality({p \in PanelsOf(panel_entries'[d]) : zoomed'[p]}) <= 1
              /\ last'.op = "zoom_out" =>
                     \A p \in PanelsOf(panel_entries'[d]) : ~zoomed'[p]]_vars

\* two docks each show a zoomed panel right after a set_panel_zoomed call
C5_Witness ==
    /\ last.op = "set_panel_zoomed" /\ last.branch = "changed" /\ last.arg
    /\ reg_zoomed = {}
    /\ \E d1, d2 \in Docks : d1 # d2 /\ ZoomedIn(d1) # {} /\ ZoomedIn(d2) # {}
\* C6 (removal reindexing): remove_panel of a registered entry at an index
\* below active_panel_index lowers active_panel_index by exactly one, leaves
\* is_open alone, and the entry at the active index holds the same panel
\* after the removal as before.
C6_RemoveBeforeActive ==
    [][\A d \in Docks, p \in Panels :
          (/\ last'.op = "remove_panel" /\ last'.dock = d /\ last'.panel = p
           /\ Position(panel_entries[d], p) # None
           /\ Position(panel_entries[d], p) < active_panel_index[d]) =>
              /\ active_panel_index'[d] = active_panel_index[d] - 1
              /\ is_open'[d] = is_open[d]
              /\ InBounds(panel_entries'[d], active_panel_index'[d])
              /\ At(panel_entries'[d], active_panel_index'[d]).panel
                     = At(panel_entries[d], active_panel_index[d]).panel]_vars

\* an entry before the active one has been removed from an open dock
C6_Witness ==
    /\ last.op = "remove_panel" /\ last.branch = "before_active"
    /\ is_open[last.dock]
    /\ InBounds(panel_entries[last.dock], active_panel_index[last.dock])
    /\ active[At(panel_entries[last.dock], active_panel_index[last.dock]).panel]

\* C7 (removal of the active entry): remove_panel of the entry at
\* active_panel_index, open or closed, at any index, ends with the dock
\* closed, active_panel_index = 0, and panel_entries equal to the old
\* sequence without that one entry.
C7_RemoveActive ==
    [][\A d \in Docks, p \in Panels :
          (/\ last'.op = "remove_panel" /\ last'.dock = d /\ last'.panel = p
           /\ Position(panel_entries[d], p) # None
           /\ Position(panel_entries[d], p) = active_panel_index[d]) =>
              LET k == active_panel_index[d] IN
              /\ ~is_open'[d]
              /\ active_panel_index'[d] = 0
              /\ Len(panel_entries'[d]) = Len(panel_entries[d]) - 1
              /\ \A i \in 1..Len(panel_entries'[d]) :
                     panel_entries'[d][i] = panel_entries[d][IF i <= k THEN i ELSE i + 1]]_vars

\* the active entry of an open dock, not the first one, has been removed
C7_Witness ==
    /\ last.op = "remove_panel" /\ last.branch = "active"
    /\ last.ix > 0
    /\ notified = 2
    /\ ~is_open[last.dock]
    /\ active_panel_index[last.dock] = 0

\* what a call that changes nothing leaves behind: no dock or panel state
\* change, no callback, no notification
NoEffect ==
    /\ UNCHANGED <<panel_entries, is_open, active_panel_index, active, zoomed>>
    /\ calls' = <<>>
    /\ notified' = 0

\* C8 as stated: set_open, activate_panel and set_panel_zoomed called with
\* the current value change nothing, deliver no callback and notify nobody.
C8_SettersIdempotent ==
    [][(last'.op \in {"set_open", "activate_panel", "set_panel_zoomed"}
        /\ last'.branch = "same") => NoEffect]_vars

\* C8 amended: set_open and activate_panel with the current value have no
\* effect at all; set_panel_zoomed(P, z) with P already at z leaves P, the
\* dock fields and the active flags alone and calls nothing on P, but it
\* unzooms every other zoomed entry (one set_zoomed(false) each) and always
\* issues one notification.
C8_SettersIdempotentAmended ==
    [][/\ (last'.op \in {"set_open", "activate_panel"} /\ last'.branch = "same") => NoEffect
       /\ (last'.op = "set_panel_zoomed" /\ last'.branch = "same") =>
              LET d == last'.dock
                  P == last'.panel
                  others == {q \in PanelsOf(panel_entries[d]) \ {P} : zoomed[q]}
              IN  /\ UNCHANGED <<panel_entries, is_open, active_panel_index, active>>
                  /\ zoomed' = [q \in Panels |-> IF q \in others THEN FALSE ELSE zoomed[q]]
                  /\ Len(calls') = Cardinality(others)
                  /\ \A i \in 1..Len(calls') :
                         /\ calls'[i].fn = "set_zoomed" /\ ~calls'[i].arg
                         /\ calls'[i].panel \in others
                  /\ notified' = 1]_vars

\* set_panel_zoomed(P, false) on an unzoomed P has unzoomed another entry
C8_Witness ==
    /\ last.op = "set_panel_zoomed" /\ last.branch = "same" /\ ~last.arg
    /\ Len(calls) = 1
    /\ notified = 1

\* C9 (scenario B): on a closed dock of inactive panels, activate_panel(i)
\* with i different from the active index followed by set_open(true) ends
\* with entry i shown, set_active(true) delivered to it exactly once over
\* the two calls, and to no other entry.
C9_ActivateThenOpenOnce ==
    trail.phase = "opened" =>
        LET d == trail.dock
            P == At(panel_entries[d], trail.ix).panel
        IN  /\ active_panel(panel_entries[d], is_open[d], active_panel_index[d]) = P
            /\ CountActivations(trail.calls, P) = 1
            /\ \A q \in Panels \ {P} : CountActivations(trail.calls, q) = 0

\* C10 (activate event): after the reaction to an activating event of a
\* registered panel P the dock is open, active_panel_index is P's index, P
\* is active and no other registered panel is, and focus was requested for P.
C10_ActivateEvent ==
    (last.op = "event" /\ last.branch = "activate") =>
        LET d == last.dock
            P == last.panel
        IN  /\ is_open[d]
            /\ active_panel_index[d] = Position(panel_entries[d], P)
            /\ active[P]
            /\ \A q \in PanelsOf(panel_entries[d]) \ {P} : ~active[q]
            /\ \E i \in 1..Len(calls) : calls[i] = [fn |-> "focus", panel |-> P, arg |-> TRUE]
\* C11 (close event): for an event of a registered panel P that asks to
\* close and not to activate, an open dock showing P becomes closed with
\* active_panel_index and panel_entries unchanged; otherwise nothing changes
\* and no panel callback is delivered.
C11_CloseEvent ==
    [][\A d \in Docks, p \in Panels :
          (/\ last'.op = "event" /\ last'.dock = d /\ last'.panel = p
           /\ last'.arg /\ last'.branch \in {"close", "ignored"}) =>
              IF /\ is_open[d]
                 /\ InBounds(panel_entries[d], active_panel_index[d])
                 /\ At(panel_entries[d], active_panel_index[d]).panel = p
              THEN /\ ~is_open'[d]
                   /\ active_panel_index'[d] = active_panel_index[d]
                   /\ panel_entries'[d] = panel_entries[d]
              ELSE /\ UNCHANGED <<panel_entries, is_open, active_panel_index, active, zoomed>>
                   /\ calls' = <<>>]_vars

\* a close event of the shown panel, not the first entry, has closed the dock
C11_Witness ==
    /\ last.op = "event" /\ last.branch = "close" /\ last.arg
    /\ last.ix > 0
    /\ ~is_open[last.dock]
    /\ active_panel_index[last.dock] = last.ix
    /\ calls = <<[fn |-> "set_active", panel |-> last.panel, arg |-> FALSE]>>
\* every entry of dock d other than the one at 0-based index ix is the same
\* before and after the step, and no entry came or went
OtherEntriesKept(d, ix) ==
    /\ Len(panel_entries'[d]) = Len(panel_entries[d])
    /\ \A i \in 1..Len(panel_entries[d]) :
           /\ panel_entries'[d][i].panel = panel_entries[d][i].panel
           /\ i # ix + 1 => panel_entries'[d][i].size = panel_entries[d][i].size

\* C12 (absent panel): remove_panel and resize_panel of a panel that is not
\* registered in the dock leave entries, sizes, is_open, active_panel_index
\* and the panels' flags alone and call no panel; panel_size of it is None.
C12_AbsentPanelNoOp ==
    [][\A d \in Docks, p \in Panels :
          (/\ last'.op \in {"remove_panel", "resize_panel"}
           /\ last'.dock = d /\ last'.panel = p
           /\ p \notin PanelsOf(panel_entries[d])) =>
              /\ UNCHANGED <<panel_entries, is_open, active_panel_index, active, zoomed>>
              /\ calls' = <<>>
              /\ panel_size(panel_entries[d], p) = None
              /\ panel_size(panel_entries'[d], p) = None]_vars

\* resize_panel of an absent panel has run on an open dock that has an entry
C12_Witness ==
    /\ last.op = "resize_panel" /\ last.branch = "not_found"
    /\ panel_entries[last.dock] # <<>>
    /\ is_open[last.dock]
    /\ last.panel \notin PanelsOf(panel_entries[last.dock])

\* C13 (add_panel frame): add_panel(P) appends one entry for P with P's
\* default size, keeps the earlier entries with their sizes in order, leaves
\* is_open and active_panel_index alone and calls no panel; on the initial
\* dock it gives one entry, index 0, closed.
C13_AddPanelAppends ==
    [][\A d \in Docks, p \in Panels :
          (last'.op = "add_panel" /\ last'.dock = d /\ last'.panel = p) =>
              LET n == Len(panel_entries[d]) IN
              /\ Len(panel_entries'[d]) = n + 1
              /\ \A i \in 1..n : panel_entries'[d][i] = panel_entries[d][i]
              /\ panel_entries'[d][n + 1].panel = p
              /\ panel_entries'[d][n + 1].size = (IF p % 2 = 1 THEN 300 ELSE 200)
              /\ UNCHANGED <<is_open, active_panel_index, active, zoomed>>
              /\ calls' = <<>>
              /\ (n = 0 /\ ~is_open[d] /\ active_panel_index[d] = 0) =>
                     /\ Len(panel_entries'[d]) = 1
                     /\ active_panel_index'[d] = 0
                     /\ ~is_open'[d]]_vars

\* a panel has been added behind a resized entry of an open dock
C13_Witness ==
    /\ last.op = "add_panel"
    /\ is_open[last.dock]
    /\ Len(panel_entries[last.dock]) >= 2
    /\ panel_entries[last.dock][1].size = 150

\* C19 (resize): resize_panel(P, s) of a registered P makes panel_size(P)
\* return s; resize_active_panel(s) on a dock with entries stores s in the
\* entry at active_panel_index, and active_panel_size() is s when open and
\* None when closed; the other sizes, is_open and the index do not change.
C19_Resize ==
    [][\A d \in Docks :
          /\ (last'.op = "resize_panel" /\ last'.dock = d
              /\ last'.panel \in PanelsOf(panel_entries[d])) =>
                 /\ panel_size(panel_entries'[d], last'.panel) = last'.arg
                 /\ OtherEntriesKept(d, Position(panel_entries[d], last'.panel))
                 /\ UNCHANGED <<is_open, active_panel_index>>
          /\ (last'.op = "resize_active_panel" /\ last'.dock = d
              /\ panel_entries[d] # <<>>) =>
                 /\ At(panel_entries'[d], active_panel_index[d]).size = last'.arg
                 /\ active_panel_size(panel_entries'[d], is_open'[d], active_panel_index'[d])
                        = (IF is_open[d] THEN last'.arg ELSE None)
                 /\ OtherEntriesKept(d, active_panel_index[d])
                 /\ UNCHANGED <<is_open, active_panel_index>>]_vars

\* the active entry of a closed dock, not the first one, has been resized
C19_Witness ==
    /\ last.op = "resize_active_panel" /\ last.branch = "found"
    /\ ~is_open[last.dock]
    /\ active_panel_index[last.dock] > 0
    /\ At(panel_entries[last.dock], active_panel_index[last.dock]).size = 150
    /\ panel_entries[last.dock][1].size # 150
\* C17 (activate order): activate_panel(i) with i in bounds and different
\* from active_panel_index tells the previously active entry's panel
\* set_active(false), then entry i's panel set_active(true), calls no other
\* panel, ends with active_panel_index = i and leaves is_open, the entries,
\* their sizes and the zoom states alone.
C17_ActivateOrder ==
    [][\A d \in Docks :
          (/\ last'.op = "activate_panel" /\ last'.dock = d
           /\ InBounds(panel_entries[d], last'.ix)
           /\ last'.ix # active_panel_index[d]) =>
              /\ calls' = <<[fn |-> "set_active",
                             panel |-> At(panel_entries[d], active_panel_index[d]).panel,
                             arg |-> FALSE],
                            [fn |-> "set_active",
                             panel |-> At(panel_entries[d], last'.ix).panel,
                             arg |-> TRUE]>>
              /\ active_panel_index'[d] = last'.ix
              /\ UNCHANGED <<is_open, panel_entries, zoomed>>]_vars

\* the first entry of an open dock has been activated in place of the second
C17_Witness ==
    /\ last.op = "activate_panel" /\ last.branch = "changed"
    /\ last.ix = 0
    /\ is_open[last.dock]
    /\ Len(calls) = 2
    /\ calls[1] = [fn |-> "set_active", panel |-> At(panel_entries[last.dock], 1).panel,
                   arg |-> FALSE]
    /\ calls[2].panel = last.panel /\ calls[2].arg

\* C20 (released subscription): remove_panel(P) of a registered P releases
\* the subscription of P's entry, a subscription is alive only for a
\* registered panel, and an event raised by a panel that is not registered in
\* the dock changes neither is_open, active_panel_index nor the entries and
\* delivers no callback.
C20_RemovedPanelEventsIgnored ==
    [][\A d \in Docks, p \in Panels :
          /\ (/\ last'.op = "remove_panel" /\ last'.dock = d /\ last'.panel = p
              /\ p \in PanelsOf(panel_entries[d])) =>
                 /\ p \notin PanelsOf(panel_entries'[d])
                 /\ p \notin subscriptions'[d]
          /\ (p \notin PanelsOf(panel_entries[d])) => p \notin subscriptions[d]
          /\ (/\ last'.op = "event" /\ last'.dock = d /\ last'.panel = p
              /\ p \notin PanelsOf(panel_entries[d])) =>
                 /\ UNCHANGED <<panel_entries, is_open, active_panel_index, active, zoomed>>
                 /\ calls' = <<>>]_vars

\* a removed panel that was left active has raised an event at a dock that
\* still has an entry
C20_Witness ==
    /\ last.op = "event" /\ last.branch = "no_subscription"
    /\ last.panel \notin PanelsOf(panel_entries[last.dock])
    /\ active[last.panel]
    /\ panel_entries[last.dock] # <<>>
    /\ calls = <<>>
\* C14 (queries): active_panel() is the panel at active_panel_index when the
\* dock is open and the index is in bounds, and None otherwise; zoomed_panel()
\* is that same panel when it is zoomed as well, and None otherwise; a zoomed
\* panel that is not the active entry of an open dock is never its result.
C14_Queries ==
    \A d \in Docks :
        LET s == panel_entries[d]
            ix == active_panel_index[d]
            shown == is_open[d] /\ InBounds(s, ix)
            ap == active_panel(s, is_open[d], ix)
            zp == zoomed_panel(s, is_open[d], ix, zoomed)
        IN  /\ shown => ap = s[ix + 1].panel
            /\ ~shown => ap = None
            /\ (shown /\ zoomed[s[ix + 1].panel]) => zp = ap
            /\ ~(shown /\ zoomed[s[ix + 1].panel]) => zp = None
            /\ \A p \in Panels :
                   (zoomed[p] /\ ~(shown /\ s[ix + 1].panel = p)) => zp # p

\* the index of a closed dock points at a zoomed entry, and zoomed_panel() is None
C14_Witness ==
    \E d \in Docks :
        /\ Len(panel_entries[d]) = 2
        /\ active_panel_index[d] = 1
        /\ ~is_open[d]
        /\ zoomed[panel_entries[d][2].panel]
        /\ zoomed_panel(panel_entries[d], is_open[d], active_panel_index[d], zoomed) = None
        /\ last.op = "set_panel_zoomed"

\* C15 (set_panel_zoomed): after set_panel_zoomed(T, z) on a dock where T is
\* registered, T's zoom is z and every other entry of the dock is unzoomed;
\* set_zoomed is called on T exactly when its zoom differed from z and on
\* another entry exactly when it was zoomed; is_open, active_panel_index, the
\* entries and their sizes are unchanged.
C15_SetPanelZoomed ==
    [][\A d \in Docks :
          (/\ last'.op = "set_panel_zoomed" /\ last'.dock = d
           /\ last'.panel \in PanelsOf(panel_entries[d])) =>
              LET T == last'.panel
                  z == last'.arg
                  called == {calls'[i].panel : i \in 1..Len(calls')}
              IN  /\ zoomed'[T] = z
                  /\ \A q \in PanelsOf(panel_entries[d]) \ {T} : ~zoomed'[q]
                  /\ \A i \in 1..Len(calls') :
                         /\ calls'[i].fn = "set_zoomed"
                         /\ calls'[i].arg = (calls'[i].panel = T /\ z)
                  /\ T \in called <=> zoomed[T] # z
                  /\ \A q \in Panels \ {T} :
                         q \in called <=> (q \in PanelsOf(panel_entries[d]) /\ zoomed[q])
                  /\ UNCHANGED <<is_open, active_panel_index, panel_entries, active>>]_vars

\* set_panel_zoomed(T, false) has unzoomed T and another zoomed entry of the dock
C15_Witness ==
    /\ last.op = "set_panel_zoomed" /\ last.branch = "changed"
    /\ ~last.arg
    /\ Len(calls) = 2
    /\ Len(panel_entries[last.dock]) = 2
    /\ \A p \in Panels : ~zoomed[p]
C22_SingleActive ==
    reg_active = {} =>
        \A d \in Docks :
            \A p \in PanelsOf(panel_entries[d]) :
                active[p] =>
                    /\ InBounds(panel_entries[d], active_panel_index[d])
                    /\ At(panel_entries[d], active_panel_index[d]).panel = p

\* the second entry was activated in place of the first, which lost its flag
C22_Witness ==
    /\ reg_active = {}
    /\ last.op = "activate_panel" /\ last.branch = "changed"
    /\ Len(calls) = 2
    /\ active_panel_index[last.dock] = 1
    /\ Len(panel_entries[last.dock]) = 2
    /\ active[panel_entries[last.dock][2].panel]
    /\ ~active[panel_entries[last.dock][1].panel]

\* C23 (removal of the active entry): when remove_panel removes the active
\* entry of an open dock, the one set_active call of the removal is
\* set_active(false) on the removed panel.
C23_RemoveActiveTellsRemoved ==
    [][\A d \in Docks :
          (/\ last'.op = "remove_panel" /\ last'.dock = d
           /\ is_open[d]
           /\ Position(panel_entries[d], last'.panel) # None
           /\ Position(panel_entries[d], last'.panel) = active_panel_index[d]) =>
              calls' = <<[fn |-> "set_active", panel |-> last'.panel, arg |-> FALSE]>>]_vars
\* the positions other than the dock's own that panel p accepts
Offered(d, p) ==
    {pos \in DockPositions : pos # dock_position(d) /\ position_is_valid(p, pos)}

\* C21 (reposition menu): the menu a right click shows for a panel of dock d
\* lists exactly the positions other than d's that the panel accepts, each
\* once, so never d's own and at most two; selecting an item sets the panel's
\* position to it and adds or removes no entry of any dock.
C21_RepositionMenu ==
    [][/\ last'.op = "click_right" =>
             LET items == menu'.items
                 d == last'.dock
             IN  /\ menu'.panel = last'.panel
                 /\ {items[i] : i \in 1..Len(items)} = Offered(d, last'.panel)
                 /\ Len(items) = Cardinality(Offered(d, last'.panel))
                 /\ Len(items) <= 2
                 /\ \A i \in 1..Len(items) : items[i] # dock_position(d)
       /\ last'.op = "select_menu" =>
             /\ last'.panel = menu.panel
             /\ position'[menu.panel] = menu.items[last'.ix]
             /\ \A q \in Panels \ {menu.panel} : position'[q] = position[q]
             /\ panel_entries' = panel_entries
             /\ calls' = <<>>]_vars

\* the only item of the menu of an even panel in the left dock was selected
C21_Witness ==
    /\ last.op = "select_menu"
    /\ last.panel = 2 /\ last.ix = 1
    /\ position[2] = "Right"
    /\ 2 \in PanelsOf(panel_entries[1])
    /\ menu = NoMenu
====
